---- MODULE Spec2Model ----
(***************************************************************************)
(* Self-restart supervisor of util-fastapi, three variants:                *)
(*   r1  restart-1.py  calendar-time trigger (APScheduler date job),       *)
(*                     request gate middleware, in-progress flag           *)
(*   r2  restart-2.py  fixed-interval trigger (sleeping daemon thread)     *)
(*   r3  restart-3-graceful+forced.py  external watchdog process           *)
(* One behaviour runs one variant, chosen in Init.  Time is a clock in     *)
(* seconds; a sleeper is woken when the clock reaches its wake time and    *)
(* the clock never runs past a pending wake time.                          *)
(***************************************************************************)
EXTENDS Integers, Sequences, FiniteSets, TLC

\* ---------------------------------------------------------------- bounds
MaxReq == 2          \* HTTP requests issued in one behaviour
MaxHours == 7        \* hours of clock the model follows after start
MaxArg == 2          \* largest interval_hours a request carries
MaxPid == 2          \* pids of the process table (restart-3)
MaxCycles == 2       \* restart cycles the watchdog runs
MaxOther == 1        \* unrelated processes that start in one behaviour
MaxTasks == 3        \* bodies started in one behaviour of restart-1

\* ------------------------------------------------------- program constants
DefaultIntervalHours == 6     \* restart-2.py: restart_interval_hours = 6
ManualDelay == 1              \* time.sleep(1) in delayed_restart
JoinTimeout == 1              \* restart_thread.join(timeout=1.0)
GracePeriod == 30             \* restart-1.py: time.sleep(30) before SIGKILL
SecondsPerHour == 3600
SecondsPerDay == 86400

None == 0 - 1                 \* Python None, for integer-valued fields

Variants == {"r1", "r2", "r3"}
Paths == {"/", "/status", "/admin/restart", "/admin/configure", "/other"}
Args == 0 .. MaxArg

\* -------------------------------------------------------------- datetime
\* A datetime is its fields; the clock is whole seconds since 00:00 of day 0
\* and a clock reading carries the sub-second phase usec of the run.
Datetime(d, h, m, s, us) ==
    [day |-> d, hour |-> h, minute |-> m, second |-> s, microsecond |-> us]

FromClock(t, us) ==
    Datetime(t \div SecondsPerDay,
             (t % SecondsPerDay) \div SecondsPerHour,
             (t % SecondsPerHour) \div 60,
             t % 60,
             us)

\* whole seconds of a datetime (the integer part of .timestamp())
Seconds(dt) ==
    dt.day * SecondsPerDay + dt.hour * SecondsPerHour + dt.minute * 60 + dt.second

\* datetime.timestamp(), in milliseconds
Milli == 1000
Timestamp(dt) == Seconds(dt) * Milli + dt.microsecond \div Milli

\* a slot of the process table, and the watchdog's record when none runs
Pids == 1 .. MaxPid
\* kind: "free", "uvicorn" (the command line matches), "other", or "zombie"
\* (exited and not yet waited for); child: started by the watchdog's Popen
NoProc == [kind |-> "free", inst |-> 0, child |-> FALSE]
\* spawned: start_fastapi was called in the last cycle; popen: what its
\* Popen did; found, ninst, nother are history (the instance that
\* find_fastapi_pid matched, the instances created, the unrelated ones)
NoWatchdog == [pc |-> "none", pid |-> None, wake |-> 0, next_run |-> 0,
               cycle |-> 0, spawned |-> FALSE, outcome |-> "none", ninst |-> 1,
               popen |-> "none", found |-> 0, nother |-> 0]

VARIABLES
    variant,                 \* which program runs
    boot,                    \* history: the clock when the program was started
    now,                     \* the clock, seconds
    usec,                    \* sub-second phase of clock readings
    started,                 \* startup_event has run
    alive,                   \* the service process exists
    lingering,               \* a connection that stays open keeps uvicorn from
                             \* exiting when it has handled SIGTERM
    signals,                 \* signals sent so far, in order
    last_restart_time,       \* global, a datetime
    restart_in_progress,     \* global (restart-1)
    restart_interval_hours,  \* global (restart-2; restart-1 after configure)
    should_restart,          \* global
    jobs,                    \* restart-1: the job store of scheduler
    restart_thread,          \* restart-2: index into threads, 0 for None
    threads,                 \* restart-2: scheduled_restart_task threads
    tasks,                   \* running perform_restart / delayed_restart bodies
    req,                     \* HTTP requests, in order of arrival
    joining,                 \* restart-2: request whose handler blocks in join
    procs,                   \* restart-3: the process table, by pid
    wd,                      \* restart-3: the watchdog's position and locals
    cfg_at                   \* history: clock at the last accepted configure

vars == <<variant, boot, now, usec, started, alive, lingering, signals,
          last_restart_time, restart_in_progress, restart_interval_hours, should_restart, jobs,
          restart_thread, threads, tasks, req, joining, procs, wd, cfg_at>>

\* groups of variables an action leaves alone
r3Vars == <<procs, wd>>
envVars == <<variant, boot, usec, lingering, r3Vars>>
r1Vars == <<restart_in_progress, jobs>>
r2Vars == <<restart_thread, threads, joining>>

DatetimeNow == FromClock(now, usec)

\* a signal sent: by which body (src, n), when, and to which process instance
\* (0 is the service process itself)
SignalTo(sig, src, n, inst) ==
    [sig |-> sig, src |-> src, n |-> n, at |-> now, to |-> inst]

Signal(sig, src, n) == SignalTo(sig, src, n, 0)

\* the positions in signals of the signals sig
Sent(sig) == {k \in 1 .. Len(signals) : signals[k].sig = sig}

NoBody == [next_restart |-> None, next_restart_in_seconds |-> None, error |-> FALSE]

\* a request: flag is history, the value of restart_in_progress that the
\* handler of an accepted configure ran under
NewRequest(p, a) ==
    [path |-> p, arg |-> a, st |-> "arrived", status |-> 0,
     body |-> NoBody, wake |-> 0, flag |-> FALSE]

Update(s, i, r) == [s EXCEPT ![i] = r]

\* ------------------------------------- bodies that sleep and send signals
\* A body is the list of its statements still to run.
Stamp == [op |-> "stamp", secs |-> 0, sig |-> ""]      \* last_restart_time = now()
Flag == [op |-> "flag", secs |-> 0, sig |-> ""]        \* restart_in_progress = True
Kill(sig) == [op |-> "kill", secs |-> 0, sig |-> sig]  \* os.kill(pid, sig)
Sleep(n) == [op |-> "sleep", secs |-> n, sig |-> ""]   \* time.sleep(n)

\* a perform_restart that sets the flag after the signal
perform_restart_flag_late ==
    <<Stamp, Kill("SIGTERM"), Flag, Sleep(GracePeriod), Kill("SIGKILL")>>

\* restart-1.py perform_restart, lines 38 to 48
perform_restart ==
    <<Stamp, Flag, Kill("SIGTERM"), Sleep(GracePeriod), Kill("SIGKILL")>>

\* restart-1.py delayed_restart, lines 131 to 134
R1delayed_restart ==
    <<Sleep(ManualDelay), Kill("SIGTERM"), Sleep(GracePeriod), Kill("SIGKILL")>>

\* restart-2.py delayed_restart, lines 102 to 103
R2delayed_restart == <<Sleep(ManualDelay), Kill("SIGTERM")>>

\* The names the import statements of each module bind.  restart-1.py binds
\* datetime's time class as dtime and never imports the time module.
ModuleNames(v) ==
    IF v = "r1"
    THEN {"os", "signal", "logging", "datetime", "timedelta", "dtime",
          "timezone", "uvicorn", "FastAPI", "BackgroundTasks", "Request",
          "JSONResponse", "BackgroundScheduler"}
    ELSE {"os", "signal", "threading", "time", "logging", "datetime",
          "uvicorn", "FastAPI", "BackgroundTasks"}

NewTask(src, n, body) ==
    [src |-> src, n |-> n, prog |-> body, st |-> "ready", wake |-> 0]

\* the next statement of body k runs; a name that is not bound raises
\* NameError, which ends the body
TaskStep(k) ==
    /\ variant \in {"r1", "r2"} /\ alive
    /\ tasks[k].st = "ready"
    /\ LET t == tasks[k]
           o == Head(t.prog)
           done == IF Len(t.prog) = 1 THEN "done" ELSE "ready"
           next == [t EXCEPT !.prog = Tail(t.prog), !.st = done]
       IN  CASE o.op = "stamp" ->
                  /\ last_restart_time' = DatetimeNow
                  /\ tasks' = Update(tasks, k, next)
                  /\ UNCHANGED <<restart_in_progress, signals>>
             [] o.op = "flag" ->
                  /\ restart_in_progress' = TRUE
                  /\ tasks' = Update(tasks, k, next)
                  /\ UNCHANGED <<last_restart_time, signals>>
             [] o.op = "kill" ->
                  /\ signals' = Append(signals, Signal(o.sig, t.src, t.n))
                  /\ tasks' = Update(tasks, k, next)
                  /\ UNCHANGED <<last_restart_time, restart_in_progress>>
             [] o.op = "sleep" ->
                  /\ tasks' = IF "time" \in ModuleNames(variant)
                              THEN Update(tasks, k,
                                     [next EXCEPT !.st = "sleeping",
                                                  !.wake = now + o.secs])
                              ELSE Update(tasks, k, [t EXCEPT !.st = "raised"])
                  /\ UNCHANGED <<last_restart_time, restart_in_progress, signals>>
    /\ UNCHANGED <<envVars, now, started, alive, restart_interval_hours,
                   should_restart, jobs, r2Vars, req, cfg_at>>

\* time.sleep returns
TaskWake(k) ==
    /\ variant \in {"r1", "r2"} /\ alive
    /\ tasks[k].st = "sleeping"
    /\ now >= tasks[k].wake
    /\ tasks' = Update(tasks, k, [tasks[k] EXCEPT !.st = "ready", !.wake = 0])
    /\ UNCHANGED <<envVars, now, started, alive, signals, last_restart_time,
                   restart_in_progress, restart_interval_hours, should_restart,
                   jobs, r2Vars, req, cfg_at>>

\* ----------------------------------------------------------- restart-2.py
R2Init ==
    /\ variant = "r2"
    /\ boot = 0
    /\ now = boot
    /\ usec = 0
    /\ started = FALSE
    /\ alive = TRUE
    /\ lingering \in BOOLEAN
    /\ signals = <<>>
    /\ last_restart_time = DatetimeNow
    /\ restart_in_progress = FALSE
    /\ restart_interval_hours = DefaultIntervalHours
    /\ should_restart = TRUE
    /\ jobs = <<>>
    /\ restart_thread = 0
    /\ threads = <<>>
    /\ tasks = <<>>
    /\ req = <<>>
    /\ joining = 0
    /\ procs = [p \in Pids |-> NoProc]
    /\ wd = NoWatchdog
    /\ cfg_at = None

\* threading.Thread(target=scheduled_restart_task); .start()
SpawnThread == Append(threads, [pc |-> "new", wake |-> 0])

R2Startup ==
    /\ variant = "r2" /\ alive /\ ~started
    /\ started' = TRUE
    /\ threads' = SpawnThread
    /\ restart_thread' = Len(threads')
    /\ UNCHANGED <<envVars, now, alive, signals, last_restart_time, r1Vars,
                   restart_interval_hours, should_restart, tasks, req, joining,
                   cfg_at>>

\* scheduled_restart_task: the loop test and the call of time.sleep
ThreadRun(i) ==
    /\ variant = "r2" /\ alive
    /\ threads[i].pc = "new"
    /\ threads' = IF should_restart
                  THEN Update(threads, i,
                         [pc |-> "sleeping",
                          wake |-> now + restart_interval_hours * SecondsPerHour])
                  ELSE Update(threads, i, [pc |-> "done", wake |-> 0])
    /\ UNCHANGED <<envVars, now, started, alive, signals, last_restart_time,
                   r1Vars, restart_interval_hours, should_restart,
                   restart_thread, tasks, req, joining, cfg_at>>

\* scheduled_restart_task after the sleep: record the time, SIGTERM, break
ThreadFire(i) ==
    /\ variant = "r2" /\ alive
    /\ threads[i].pc = "sleeping"
    /\ now >= threads[i].wake
    /\ last_restart_time' = DatetimeNow
    /\ signals' = Append(signals, Signal("SIGTERM", "scheduled", i))
    /\ threads' = Update(threads, i, [pc |-> "done", wake |-> 0])
    /\ UNCHANGED <<envVars, now, started, alive, r1Vars,
                   restart_interval_hours, should_restart, restart_thread,
                   tasks, req, joining, cfg_at>>

\* ------------------------------------------------------------ HTTP requests
\* times in response bodies are in milliseconds
Respond(i, code, body) ==
    [req EXCEPT ![i].st = "done", ![i].status = code, ![i].body = body]

\* a client sends a request; interval_hours matters to /admin/configure only.
\* uvicorn stops accepting connections once SIGTERM has reached it.
Arrive(p, a) ==
    /\ variant \in {"r1", "r2"} /\ alive /\ started
    /\ Sent("SIGTERM") = {}
    /\ Len(req) < MaxReq
    /\ a \in (IF p = "/admin/configure" THEN Args ELSE {0})
    /\ req' = Append(req, NewRequest(p, a))
    /\ UNCHANGED <<envVars, now, started, alive, signals, last_restart_time,
                   r1Vars, restart_interval_hours, should_restart, r2Vars,
                   tasks, cfg_at>>

\* the client has read the answer and the connection is closed
Closed == [NewRequest("/", 0) EXCEPT !.st = "closed"]

Receive(i) ==
    /\ variant \in {"r1", "r2"}
    /\ req[i].st = "done"
    /\ req' = [req EXCEPT ![i] = Closed]
    /\ UNCHANGED <<envVars, now, started, alive, signals, last_restart_time,
                   r1Vars, restart_interval_hours, should_restart, r2Vars,
                   tasks, cfg_at>>

\* restart-2.py has no middleware: the router calls the handler directly
R2Ready(i, p) ==
    /\ variant = "r2" /\ alive /\ joining = 0
    /\ i \in 1 .. Len(req)
    /\ req[i].st = "arrived"
    /\ req[i].path = p

\* last_restart_time.timestamp() + restart_interval_hours * 3600
R2NextRestart == Timestamp(last_restart_time)
                   + restart_interval_hours * SecondsPerHour * Milli

Max(a, b) == IF a >= b THEN a ELSE b

\* GET /
R2Root(i) ==
    /\ R2Ready(i, "/")
    /\ req' = Respond(i, 200, [NoBody EXCEPT !.next_restart = R2NextRestart])
    /\ UNCHANGED <<envVars, now, started, alive, signals, last_restart_time,
                   r1Vars, restart_interval_hours, should_restart, r2Vars,
                   tasks, cfg_at>>

\* GET /status
R2Status(i) ==
    /\ R2Ready(i, "/status")
    /\ req' = Respond(i, 200,
                [NoBody EXCEPT !.next_restart_in_seconds =
                    Max(0, R2NextRestart - Timestamp(DatetimeNow))])
    /\ UNCHANGED <<envVars, now, started, alive, signals, last_restart_time,
                   r1Vars, restart_interval_hours, should_restart, r2Vars,
                   tasks, cfg_at>>

\* a path with no route: the router answers 404
R2NotFound(i) ==
    /\ R2Ready(i, "/other")
    /\ req' = Respond(i, 404, NoBody)
    /\ UNCHANGED <<envVars, now, started, alive, signals, last_restart_time,
                   r1Vars, restart_interval_hours, should_restart, r2Vars,
                   tasks, cfg_at>>

\* a handler that awaits delayed_restart before it answers
R2ManualRestartAwaits(i) ==
    /\ R2Ready(i, "/admin/restart")
    /\ tasks' = Append(tasks, NewTask("manual", i, R2delayed_restart))
    /\ req' = [req EXCEPT ![i].st = "awaiting"]
    /\ UNCHANGED <<envVars, now, started, alive, signals, last_restart_time,
                   r1Vars, restart_interval_hours, should_restart, r2Vars,
                   cfg_at>>

\* POST /admin/restart: queue delayed_restart and answer
R2ManualRestart(i) ==
    /\ R2Ready(i, "/admin/restart")
    /\ tasks' = Append(tasks, NewTask("manual", i, R2delayed_restart))
    /\ req' = Respond(i, 200, NoBody)
    /\ UNCHANGED <<envVars, now, started, alive, signals, last_restart_time,
                   r1Vars, restart_interval_hours, should_restart, r2Vars,
                   cfg_at>>

\* restart_thread and restart_thread.is_alive()
ThreadAlive == restart_thread # 0 /\ threads[restart_thread].pc # "done"

ConfigureBody(h) ==
    [NoBody EXCEPT !.next_restart_in_seconds = h * SecondsPerHour * Milli]

ErrorBody == [NoBody EXCEPT !.error = TRUE]

\* a validation that lets 0 through
InvalidBelowZero(h) == h < 0

\* interval_hours < 1
Invalid(h) == h < 1

\* POST /admin/configure up to the join: validate, store, stop flag, join
R2ConfigureBegin(i) ==
    /\ R2Ready(i, "/admin/configure")
    /\ IF Invalid(req[i].arg)
       THEN /\ req' = Respond(i, 200, ErrorBody)
            /\ UNCHANGED <<restart_interval_hours, should_restart, restart_thread,
                           threads, joining, cfg_at>>
       ELSE /\ restart_interval_hours' = req[i].arg
            /\ cfg_at' = now
            /\ IF ThreadAlive
               THEN /\ should_restart' = FALSE
                    /\ joining' = i
                    /\ req' = [req EXCEPT ![i].st = "joining",
                                          ![i].wake = now + JoinTimeout]
                    /\ UNCHANGED <<restart_thread, threads>>
               ELSE /\ should_restart' = TRUE
                    /\ threads' = SpawnThread
                    /\ restart_thread' = Len(threads')
                    /\ req' = Respond(i, 200, ConfigureBody(req[i].arg))
                    /\ UNCHANGED joining
    /\ UNCHANGED <<envVars, now, started, alive, signals, last_restart_time,
                   r1Vars, tasks>>

\* POST /admin/configure from the return of join: new thread, answer
R2ConfigureEnd(i) ==
    /\ variant = "r2" /\ alive
    /\ joining = i
    /\ ~ThreadAlive \/ now >= req[i].wake
    /\ should_restart' = TRUE
    /\ threads' = SpawnThread
    /\ restart_thread' = Len(threads')
    /\ req' = [Respond(i, 200, ConfigureBody(restart_interval_hours))
                 EXCEPT ![i].wake = 0]
    /\ joining' = 0
    /\ UNCHANGED <<envVars, now, started, alive, signals, last_restart_time,
                   r1Vars, restart_interval_hours, tasks, cfg_at>>

\* ----------------------------------------------------------- restart-1.py
\* default_restart_time = dtime(23, 30)
default_restart_time == [hour |-> 23, minute |-> 30]

\* a >= b for two datetimes of the same zone: their fields in order
DtGE(a, b) ==
    \/ Seconds(a) > Seconds(b)
    \/ Seconds(a) = Seconds(b) /\ a.microsecond >= b.microsecond

\* schedule_restart with now > next_restart as the test for the next day
schedule_restart_gt(nowdt) ==
    LET next_restart == [nowdt EXCEPT !.hour = default_restart_time.hour,
                                      !.minute = default_restart_time.minute,
                                      !.second = 0,
                                      !.microsecond = 0]
    IN  IF DtGE(nowdt, next_restart) /\ nowdt # next_restart
        THEN [next_restart EXCEPT !.day = @ + 1]
        ELSE next_restart

\* schedule_restart: the run date of the job, from the current time
schedule_restart(nowdt) ==
    LET next_restart == [nowdt EXCEPT !.hour = default_restart_time.hour,
                                      !.minute = default_restart_time.minute,
                                      !.second = 0,
                                      !.microsecond = 0]
    IN  IF DtGE(nowdt, next_restart)
        THEN [next_restart EXCEPT !.day = @ + 1]
        ELSE next_restart

\* dt + timedelta(hours=h)
AddHours(dt, h) == FromClock(Seconds(dt) + h * SecondsPerHour, dt.microsecond)

\* clock readings (seconds, microseconds) at which the program is started:
\* half a second before the restart time, and at it
R1Starts == {<<23 * SecondsPerHour + 29 * 60 + 59, 500000>>,
             <<23 * SecondsPerHour + 30 * 60, 0>>}

R1InitAt(starts) ==
    /\ variant = "r1"
    /\ \E st \in starts : boot = st[1] /\ usec = st[2]
    /\ now = boot
    /\ started = FALSE
    /\ alive = TRUE
    /\ lingering \in BOOLEAN
    /\ signals = <<>>
    /\ last_restart_time = DatetimeNow
    /\ restart_in_progress = FALSE
    /\ restart_interval_hours = None
    /\ should_restart = TRUE
    /\ jobs = <<>>
    /\ restart_thread = 0
    /\ threads = <<>>
    /\ tasks = <<>>
    /\ req = <<>>
    /\ joining = 0
    /\ procs = [p \in Pids |-> NoProc]
    /\ wd = NoWatchdog
    /\ cfg_at = None

R1Init == R1InitAt(R1Starts)

\* startup_event: scheduler.start(); schedule_restart() adds the date job
R1Startup ==
    /\ variant = "r1" /\ alive /\ ~started
    /\ started' = TRUE
    /\ jobs' = <<[trigger |-> "date", hours |-> 0,
                  next_run_time |-> schedule_restart(DatetimeNow)]>>
    /\ UNCHANGED <<envVars, now, alive, signals, last_restart_time,
                   restart_in_progress, restart_interval_hours, should_restart,
                   r2Vars, tasks, req, cfg_at>>

JobDue(j) == Timestamp(DatetimeNow) >= Timestamp(j.next_run_time)

\* an instance of the job's function is running (max_instances is 1)
JobRunning ==
    \E k \in 1 .. Len(tasks) :
        tasks[k].src = "scheduled" /\ tasks[k].st \in {"ready", "sleeping"}

\* the scheduler runs a due job: perform_restart starts in a worker thread;
\* a date job is removed, an interval job gets its next run time
R1JobFire ==
    /\ variant = "r1" /\ alive /\ started
    /\ jobs # <<>>
    /\ JobDue(jobs[1])
    /\ Len(tasks) < MaxTasks
    /\ tasks' = IF JobRunning THEN tasks
                ELSE Append(tasks, NewTask("scheduled", 1, perform_restart))
    /\ jobs' = IF jobs[1].trigger = "date" THEN <<>>
               ELSE <<[jobs[1] EXCEPT !.next_run_time =
                                        AddHours(@, jobs[1].hours)]>>
    /\ UNCHANGED <<envVars, now, started, alive, signals, last_restart_time,
                   restart_in_progress, restart_interval_hours, should_restart,
                   r2Vars, req, cfg_at>>

\* a gate that lets the admin routes through during a restart
GateRejectsExceptAdmin(p) ==
    restart_in_progress /\ p \notin {"/admin/restart", "/admin/configure"}

\* check_restart_status: the condition under which a request is refused
GateRejects(p) == restart_in_progress

\* check_restart_status: 503, or call_next(request)
R1Gate(i) ==
    /\ variant = "r1" /\ alive
    /\ i \in 1 .. Len(req)
    /\ req[i].st = "arrived"
    /\ req' = IF GateRejects(req[i].path)
              THEN Respond(i, 503, NoBody)
              ELSE [req EXCEPT ![i].st = "passed"]
    /\ UNCHANGED <<envVars, now, started, alive, signals, last_restart_time,
                   r1Vars, restart_interval_hours, should_restart, r2Vars,
                   tasks, cfg_at>>

R1Ready(i, p) ==
    /\ variant = "r1" /\ alive
    /\ i \in 1 .. Len(req)
    /\ req[i].st = "passed"
    /\ req[i].path = p

\* scheduler.get_jobs()[0].next_run_time if scheduler.get_jobs() else None
R1NextRestart == IF jobs # <<>> THEN Timestamp(jobs[1].next_run_time) ELSE None

\* GET / and GET /status
R1Root(i) ==
    /\ R1Ready(i, "/")
    /\ req' = Respond(i, 200, [NoBody EXCEPT !.next_restart = R1NextRestart])
    /\ UNCHANGED <<envVars, now, started, alive, signals, last_restart_time,
                   r1Vars, restart_interval_hours, should_restart, r2Vars,
                   tasks, cfg_at>>

R1Status(i) ==
    /\ R1Ready(i, "/status")
    /\ req' = Respond(i, 200, [NoBody EXCEPT !.next_restart = R1NextRestart])
    /\ UNCHANGED <<envVars, now, started, alive, signals, last_restart_time,
                   r1Vars, restart_interval_hours, should_restart, r2Vars,
                   tasks, cfg_at>>

R1NotFound(i) ==
    /\ R1Ready(i, "/other")
    /\ req' = Respond(i, 404, NoBody)
    /\ UNCHANGED <<envVars, now, started, alive, signals, last_restart_time,
                   r1Vars, restart_interval_hours, should_restart, r2Vars,
                   tasks, cfg_at>>

\* POST /admin/restart: set the flag, queue delayed_restart, answer
R1ManualRestart(i) ==
    /\ R1Ready(i, "/admin/restart")
    /\ restart_in_progress' = TRUE
    /\ tasks' = Append(tasks, NewTask("manual", i, R1delayed_restart))
    /\ req' = Respond(i, 200, NoBody)
    /\ UNCHANGED <<envVars, now, started, alive, signals, last_restart_time,
                   jobs, restart_interval_hours, should_restart, r2Vars, cfg_at>>

\* a reschedule that counts the interval from the job's pending run time
RescheduleFromRunTime(j, h) ==
    [trigger |-> "interval", hours |-> h,
     next_run_time |-> AddHours(j.next_run_time, h)]

\* job.reschedule('interval', hours=h): an interval trigger whose first run
\* is h hours from now
Reschedule(j, h) ==
    [trigger |-> "interval", hours |-> h, next_run_time |-> AddHours(DatetimeNow, h)]

\* POST /admin/configure
R1Configure(i) ==
    /\ R1Ready(i, "/admin/configure")
    /\ IF Invalid(req[i].arg)
       THEN /\ req' = Respond(i, 200, ErrorBody)
            /\ UNCHANGED <<restart_interval_hours, jobs, cfg_at>>
       ELSE /\ restart_interval_hours' = req[i].arg
            /\ jobs' = [k \in 1 .. Len(jobs) |-> Reschedule(jobs[k], req[i].arg)]
            /\ cfg_at' = now
            /\ req' = [Respond(i, 200, ConfigureBody(req[i].arg))
                         EXCEPT ![i].flag = restart_in_progress]
    /\ UNCHANGED <<envVars, now, started, alive, signals, last_restart_time,
                   restart_in_progress, should_restart, r2Vars, tasks>>

\* ------------------------------------------- restart-3-graceful+forced.py
\* schedule.every(6).hours: schedule_restarts(6) in __main__
WatchdogIntervalHours == 6
WatchdogGrace == 5            \* time.sleep(5) after SIGTERM
PollSeconds == 60             \* time.sleep(60) in the scheduler loop

\* pids whose command line contains 'uvicorn'
Matching == {p \in Pids : procs[p].kind = "uvicorn"}
FreePids == {p \in Pids : procs[p].kind = "free"}
Zombies == {p \in Pids : procs[p].kind = "zombie"}
\* history: processes are numbered in the order they are created
NextInst == wd.ninst + 1

R3Init ==
    /\ variant = "r3"
    /\ boot = 0
    /\ now = boot
    /\ usec = 0
    /\ started = FALSE
    /\ alive = TRUE
    /\ lingering = FALSE
    /\ signals = <<>>
    /\ last_restart_time = DatetimeNow
    /\ restart_in_progress = FALSE
    /\ restart_interval_hours = WatchdogIntervalHours
    /\ should_restart = TRUE
    /\ jobs = <<>>
    /\ restart_thread = 0
    /\ threads = <<>>
    /\ tasks = <<>>
    /\ req = <<>>
    /\ joining = 0
    /\ procs \in {[p \in Pids |-> NoProc],
                  [p \in Pids |-> IF p = 1
                                  THEN [kind |-> "uvicorn", inst |-> 1,
                                        child |-> FALSE]
                                  ELSE NoProc]}
    /\ wd = [NoWatchdog EXCEPT !.pc = "boot"]
    /\ cfg_at = None

\* start_fastapi: Popen of a detached uvicorn, which gets a free pid; or
\* Popen raises (no uvicorn on the path, no process to be had) and the
\* except clause logs it: p is None
\* Popen first waits for the exited children of earlier Popens
\* (subprocess._cleanup), which frees their pids.
Spawned(p) ==
    [q \in Pids |->
        IF q = p THEN [kind |-> "uvicorn", inst |-> NextInst, child |-> TRUE]
        ELSE IF procs[q].kind = "zombie" THEN NoProc
        ELSE procs[q]]

\* the outcomes of Popen: the pid of the child, or None when it raised
Popen == FreePids \cup Zombies \cup {None}

\* the process table after the process on pid p has exited: a child of the
\* watchdog stays as a zombie, since the watchdog never waits for it; any
\* other process is waited for by its parent and its pid is free again
Exited(p) ==
    IF procs[p].child THEN [procs EXCEPT ![p].kind = "zombie"]
    ELSE [procs EXCEPT ![p] = NoProc]

\* the first poll of the loop, every PollSeconds from t, that finds the job due
PollWake(t, due) ==
    IF due <= t THEN t
    ELSE t + PollSeconds * ((due - t + PollSeconds - 1) \div PollSeconds)

\* a restart_fastapi that lets the exceptions of os.kill out: they end
\* schedule_restarts
CycleEndRaises(outcome, spawned, p) ==
    LET due == now + WatchdogIntervalHours * SecondsPerHour
    IN  IF outcome \in {"lookup_error", "error"}
        THEN [wd EXCEPT !.pc = "crashed", !.outcome = outcome]
        ELSE [wd EXCEPT !.pc = "loop", !.pid = None, !.cycle = @ + 1,
                        !.next_run = due,
                        !.wake = PollWake(now + PollSeconds, due),
                        !.spawned = spawned, !.outcome = outcome,
                        !.popen = IF p = None THEN "raised" ELSE "ok",
                        !.ninst = IF p # None THEN NextInst ELSE @]

\* restart_fastapi returned: schedule sets the job's next run and the loop
\* goes back to run_pending / sleep(60); outcome is how the cycle ended
CycleEnd(outcome, spawned, p) ==
    LET due == now + WatchdogIntervalHours * SecondsPerHour
    IN  [wd EXCEPT !.pc = "loop", !.pid = None, !.cycle = @ + 1,
                   !.next_run = due, !.wake = PollWake(now + PollSeconds, due),
                   !.spawned = spawned, !.outcome = outcome,
                   !.popen = IF ~spawned THEN "none"
                             ELSE IF p = None THEN "raised" ELSE "ok",
                   !.ninst = IF spawned /\ p # None THEN NextInst ELSE @]

\* schedule_restarts up to the loop: schedule the job, start a target if
\* none is found
R3Schedule ==
    /\ variant = "r3" /\ wd.pc = "boot"
    /\ started' = TRUE
    /\ \E p \in IF Matching = {} THEN Popen ELSE {None} :
          /\ procs' = IF Matching = {} THEN Spawned(p) ELSE procs
          /\ LET due == now + WatchdogIntervalHours * SecondsPerHour
             IN  wd' = [wd EXCEPT !.pc = "loop", !.next_run = due,
                                  !.wake = PollWake(now, due),
                                  !.spawned = (Matching = {}),
                                  !.popen = IF Matching # {} THEN "none"
                                            ELSE IF p = None THEN "raised"
                                            ELSE "ok",
                                  !.ninst = IF p # None THEN NextInst ELSE @]
    /\ UNCHANGED <<variant, boot, usec, lingering, now, alive, signals, last_restart_time,
                   r1Vars, restart_interval_hours, should_restart, r2Vars,
                   tasks, req, cfg_at>>

\* run_pending finds the job due: restart_fastapi is called
R3Poll ==
    /\ variant = "r3" /\ wd.pc = "loop"
    /\ now >= wd.wake
    /\ wd.cycle < MaxCycles
    /\ wd' = [wd EXCEPT !.pc = "find", !.spawned = FALSE, !.popen = "none",
                        !.found = 0]
    /\ UNCHANGED <<variant, boot, usec, lingering, procs, now, started, alive, signals,
                   last_restart_time, r1Vars, restart_interval_hours,
                   should_restart, r2Vars, tasks, req, cfg_at>>

\* pid = find_fastapi_pid(): some matching process, or None
R3Find ==
    /\ variant = "r3" /\ wd.pc = "find"
    /\ \E p \in Pids \cup {None} :
          /\ IF Matching = {} THEN p = None ELSE p \in Matching
          /\ wd' = [wd EXCEPT !.pid = p,
                              !.found = IF p = None THEN 0 ELSE procs[p].inst,
                              !.pc = IF p = None THEN "start" ELSE "term"]
    /\ UNCHANGED <<variant, boot, usec, lingering, procs, now, started, alive, signals,
                   last_restart_time, r1Vars, restart_interval_hours,
                   should_restart, r2Vars, tasks, req, cfg_at>>

\* os.kill(pid, sig) can raise PermissionError when the pid now belongs to
\* a process of another user
MayRefuse(p) == procs[p].kind = "other"

\* os.kill(pid, SIGTERM); ProcessLookupError and any other exception end
\* restart_fastapi in its except clauses
R3Term ==
    /\ variant = "r3" /\ wd.pc = "term"
    /\ \/ /\ procs[wd.pid].kind = "free"
          /\ wd' = CycleEnd("lookup_error", FALSE, None)
          /\ UNCHANGED signals
       \/ /\ MayRefuse(wd.pid)
          /\ wd' = CycleEnd("error", FALSE, None)
          /\ UNCHANGED signals
       \/ /\ procs[wd.pid].kind # "free"
          /\ signals' = Append(signals, SignalTo("SIGTERM", "watchdog", wd.pid,
                                                 procs[wd.pid].inst))
          /\ wd' = [wd EXCEPT !.pc = "grace", !.wake = now + WatchdogGrace]
    /\ UNCHANGED <<variant, boot, usec, lingering, procs, now, started, alive,
                   last_restart_time, r1Vars, restart_interval_hours,
                   should_restart, r2Vars, tasks, req, cfg_at>>

\* after time.sleep(5): psutil.pid_exists(pid)
R3Check ==
    /\ variant = "r3" /\ wd.pc = "grace"
    /\ now >= wd.wake
    /\ wd' = [wd EXCEPT !.pc = IF procs[wd.pid].kind # "free" THEN "kill9"
                               ELSE "start"]
    /\ UNCHANGED <<variant, boot, usec, lingering, procs, now, started, alive, signals,
                   last_restart_time, r1Vars, restart_interval_hours,
                   should_restart, r2Vars, tasks, req, cfg_at>>

\* os.kill(pid, SIGKILL): the process is gone at once (a zombie is left as
\* it is)
R3Kill9 ==
    /\ variant = "r3" /\ wd.pc = "kill9"
    /\ \/ /\ procs[wd.pid].kind = "free"
          /\ wd' = CycleEnd("lookup_error", FALSE, None)
          /\ UNCHANGED <<signals, procs>>
       \/ /\ MayRefuse(wd.pid)
          /\ wd' = CycleEnd("error", FALSE, None)
          /\ UNCHANGED <<signals, procs>>
       \/ /\ procs[wd.pid].kind # "free"
          /\ signals' = Append(signals, SignalTo("SIGKILL", "watchdog", wd.pid,
                                                 procs[wd.pid].inst))
          /\ procs' = IF procs[wd.pid].kind = "zombie" THEN procs
                      ELSE Exited(wd.pid)
          /\ wd' = [wd EXCEPT !.pc = "start"]
    /\ UNCHANGED <<variant, boot, usec, lingering, now, started, alive,
                   last_restart_time, r1Vars, restart_interval_hours,
                   should_restart, r2Vars, tasks, req, cfg_at>>

\* a restart_fastapi with no else branch: nothing is started when no
\* process was found
R3StartUnlessNotFound ==
    /\ variant = "r3" /\ wd.pc = "start"
    /\ \E p \in IF wd.pid = None THEN {None} ELSE Popen :
          /\ procs' = Spawned(p)
          /\ wd' = CycleEnd(IF wd.pid = None THEN "not_found" ELSE "restarted",
                            wd.pid # None, p)
    /\ UNCHANGED <<variant, boot, usec, lingering, now, started, alive, signals,
                   last_restart_time, r1Vars, restart_interval_hours,
                   should_restart, r2Vars, tasks, req, cfg_at>>

\* start_fastapi()
R3Start ==
    /\ variant = "r3" /\ wd.pc = "start"
    /\ \E p \in Popen :
          /\ procs' = Spawned(p)
          /\ wd' = CycleEnd(IF wd.pid = None THEN "not_found" ELSE "restarted",
                            TRUE, p)
    /\ UNCHANGED <<variant, boot, usec, lingering, now, started, alive, signals,
                   last_restart_time, r1Vars, restart_interval_hours,
                   should_restart, r2Vars, tasks, req, cfg_at>>

\* an unrelated process starts and is given a free pid
OtherStart(p) ==
    /\ variant = "r3"
    /\ p \in FreePids
    /\ wd.nother < MaxOther
    /\ procs' = [procs EXCEPT ![p] = [kind |-> "other", inst |-> NextInst,
                                      child |-> FALSE]]
    /\ wd' = [wd EXCEPT !.ninst = NextInst, !.nother = @ + 1]
    /\ UNCHANGED <<variant, boot, usec, lingering, now, started, alive, signals,
                   last_restart_time, r1Vars, restart_interval_hours,
                   should_restart, r2Vars, tasks, req, cfg_at>>

\* a process exits, on SIGTERM or on its own
TargetExit(p) ==
    /\ variant = "r3"
    /\ procs[p].kind \in {"uvicorn", "other"}
    /\ procs' = Exited(p)
    /\ UNCHANGED <<variant, boot, usec, lingering, wd, now, started, alive, signals,
                   last_restart_time, r1Vars, restart_interval_hours,
                   should_restart, r2Vars, tasks, req, cfg_at>>

\* ------------------------------------------------------ process and clock
\* requests and bodies uvicorn waits for before it exits
Draining ==
    \/ \E i \in 1 .. Len(req) : req[i].st \notin {"done", "closed"}
    \/ \E k \in 1 .. Len(tasks) : tasks[k].st \in {"ready", "sleeping"}

\* uvicorn on SIGTERM: shutdown_event runs and the process exits; at once
\* when nothing is in flight and no connection lingers, and at some time (the
\* connection closes, or the exit is forced) otherwise
Shutdown ==
    /\ variant \in {"r1", "r2"} /\ alive
    /\ Sent("SIGTERM") # {}
    /\ should_restart' = FALSE
    /\ alive' = FALSE
    /\ UNCHANGED <<envVars, now, started, signals, last_restart_time, r1Vars,
                   restart_interval_hours, r2Vars, tasks, req, cfg_at>>

\* wake times of everything that sleeps
Wakes ==
    {threads[i].wake : i \in {j \in 1 .. Len(threads) : threads[j].pc = "sleeping"}}
    \cup {tasks[i].wake : i \in {j \in 1 .. Len(tasks) : tasks[j].st = "sleeping"}}
    \cup {req[i].wake : i \in {j \in 1 .. Len(req) : req[j].st = "joining"}}
    \cup {Seconds(jobs[i].next_run_time) : i \in 1 .. Len(jobs)}
    \cup {wd.wake : x \in {y \in {wd.pc} : y \in {"loop", "grace"}}}

\* something runs at this instant: the clock waits for it
Busy ==
    \/ \E t \in Wakes : t <= now
    \/ \E i \in 1 .. Len(threads) : threads[i].pc = "new"
    \/ \E i \in 1 .. Len(tasks) : tasks[i].st = "ready"
    \/ \E i \in 1 .. Len(req) : req[i].st \in {"arrived", "passed", "done"}
    \/ joining # 0 /\ ~ThreadAlive
    \/ variant \in {"r1", "r2"} /\ ~lingering /\ Sent("SIGTERM") # {} /\ ~Draining
    \/ wd.pc \in {"boot", "find", "term", "kill9", "start"}

MaxTime == boot + MaxHours * SecondsPerHour

SetMin(S) == CHOOSE x \in S : \A y \in S : x <= y

\* the instants the clock can move to: the next wake time, or a full hour
NextTimes ==
    {t \in (IF Wakes = {} THEN {} ELSE {SetMin(Wakes)})
            \cup {h \in {now + SecondsPerHour} : h <= MaxTime} :
        \A w \in Wakes : t <= w}

Advance ==
    /\ alive /\ started
    /\ ~Busy
    /\ \E t \in NextTimes : now' = t
    /\ UNCHANGED <<envVars, started, alive, signals, last_restart_time, r1Vars,
                   restart_interval_hours, should_restart, r2Vars, tasks, req,
                   cfg_at>>

\* --------------------------------------------------------- specification
Init == R1Init \/ R2Init \/ R3Init

Next ==
    \/ R1Startup
    \/ R1JobFire
    \/ \E i \in 1 .. MaxReq : R1Gate(i)
    \/ \E i \in 1 .. MaxReq : R1Root(i)
    \/ \E i \in 1 .. MaxReq : R1Status(i)
    \/ \E i \in 1 .. MaxReq : R1NotFound(i)
    \/ \E i \in 1 .. MaxReq : R1ManualRestart(i)
    \/ \E i \in 1 .. MaxReq : R1Configure(i)
    \/ R2Startup
    \/ \E i \in 1 .. Len(threads) : ThreadRun(i)
    \/ \E i \in 1 .. Len(threads) : ThreadFire(i)
    \/ \E k \in 1 .. Len(tasks) : TaskStep(k)
    \/ \E k \in 1 .. Len(tasks) : TaskWake(k)
    \/ \E p \in Paths, a \in Args : Arrive(p, a)
    \/ \E i \in 1 .. Len(req) : Receive(i)
    \/ \E i \in 1 .. MaxReq : R2Root(i)
    \/ \E i \in 1 .. MaxReq : R2Status(i)
    \/ \E i \in 1 .. MaxReq : R2NotFound(i)
    \/ \E i \in 1 .. MaxReq : R2ManualRestart(i)
    \/ \E i \in 1 .. MaxReq : R2ConfigureBegin(i)
    \/ \E i \in 1 .. MaxReq : R2ConfigureEnd(i)
    \/ R3Schedule
    \/ R3Poll
    \/ R3Find
    \/ R3Term
    \/ R3Check
    \/ R3Kill9
    \/ R3Start
    \/ \E p \in Pids : TargetExit(p)
    \/ \E p \in Pids : OtherStart(p)
    \/ Shutdown
    \/ Advance

Spec == Init /\ [][Next]_vars

\* ------------------------------------------------- the watchdog on its own
\* the statements of the watchdog's one thread
WatchdogStep ==
    \/ R3Schedule
    \/ R3Poll
    \/ R3Find
    \/ R3Term
    \/ R3Check
    \/ R3Kill9
    \/ R3Start

WatchdogNext ==
    \/ WatchdogStep
    \/ \E p \in Pids : TargetExit(p)
    \/ \E p \in Pids : OtherStart(p)
    \/ Advance

\* the thread runs when it can and time.sleep returns: weak fairness of
\* the thread's steps and of the clock
WatchdogSpec ==
    R3Init /\ [][WatchdogNext]_vars /\ WF_vars(WatchdogStep) /\ WF_vars(Advance)

\* ================================================================ claims
InProcess == variant \in {"r1", "r2"}

\* C1: in the in-process variants the termination signal sequence is started
\* at most once: whatever the interleaving of scheduled fires and manual
\* triggers, no second SIGTERM is ever sent to the process (stated for the
\* runs in which the process exits as soon as it has handled the first).
C1_AtMostOnceTermination ==
    (InProcess /\ ~lingering) => Cardinality(Sent("SIGTERM")) <= 1

\* C2: every step of the request gate of restart-1 answers 503 and leaves the
\* request unhandled when restart_in_progress is true, and hands the request
\* on, unmodified, when it is false; a handler's answer is only ever given to
\* a request the gate handed on.
C2_GateStep(i) ==
    /\ (req[i].st = "arrived" /\ req'[i].st # "arrived") =>
          IF restart_in_progress
          THEN /\ req'[i] = [req[i] EXCEPT !.st = "done", !.status = 503]
               /\ UNCHANGED <<restart_in_progress, restart_interval_hours,
                              jobs, tasks, signals, cfg_at>>
          ELSE req'[i] = [req[i] EXCEPT !.st = "passed"]
    /\ (req[i].status = 0 /\ req'[i].status \in {200, 404}) =>
          req[i].st = "passed"

C2_RequestGate ==
    [][variant = "r1" => \A i \in 1 .. Len(req) : C2_GateStep(i)]_vars

\* C2 witness: the gate has refused one request and handed on another, each
\* on a different path.
C2_Witness ==
    /\ variant = "r1"
    /\ \E i, j \in 1 .. Len(req) :
          /\ req[i].status = 503 /\ req[i].path = "/admin/configure"
          /\ req[j].status = 200 /\ req[j].path = "/admin/restart"

\* C3: in restart-2 at most one scheduler thread is waiting to fire.
C3_OneTimerArmed ==
    variant = "r2" =>
        Cardinality({i \in 1 .. Len(threads) : threads[i].pc = "sleeping"}) <= 1

\* C4: in restart-1 the background task of an accepted manual restart does
\* not end before it has sent SIGTERM.
C4_ManualTaskSignals ==
    variant = "r1" =>
        \A k \in 1 .. Len(tasks) :
            (tasks[k].src = "manual" /\ tasks[k].st \in {"done", "raised"}) =>
                \E s \in Sent("SIGTERM") :
                    signals[s].src = "manual" /\ signals[s].n = tasks[k].n

\* the grace period of the variant that runs
C5_Grace == IF variant = "r3" THEN WatchdogGrace ELSE GracePeriod

\* the process that SIGTERM number s was sent to still exists
C5_TargetLives(s) ==
    IF variant = "r3"
    THEN \E p \in Pids : procs[p].kind # "free" /\ procs[p].inst = signals[s].to
    ELSE alive

C5_SameSender(a, b) ==
    signals[a].src = signals[b].src /\ signals[a].n = signals[b].n

\* C5: in every variant a SIGKILL follows the SIGTERM of the same restart by
\* at least the grace period, and once the grace period after a SIGTERM is
\* over and its target still exists, the SIGKILL has been sent.
C5_Escalation ==
    /\ \A k \in Sent("SIGKILL") :
          \E s \in Sent("SIGTERM") :
              /\ s < k /\ C5_SameSender(s, k)
              /\ signals[k].at >= signals[s].at + C5_Grace
    /\ \A s \in Sent("SIGTERM") :
          (now > signals[s].at + C5_Grace /\ C5_TargetLives(s)) =>
              \E k \in Sent("SIGKILL") : s < k /\ C5_SameSender(s, k)

\* C6: every restart cycle the watchdog has completed ended with
\* start_fastapi having been called, the ProcessLookupError cycles included.
C6_CycleRelaunches ==
    (variant = "r3" /\ wd.pc = "loop" /\ wd.cycle >= 1) => wd.spawned

\* the time the claim expects to be reported: the accepted configure's
\* time plus the interval
C7_Expected ==
    Timestamp(FromClock(cfg_at, usec))
        + restart_interval_hours * SecondsPerHour * Milli

C7_Answered(i) ==
    /\ req[i].st # "done" /\ req'[i].st = "done" /\ req'[i].status = 200
    /\ req[i].path \in {"/", "/status"}

\* C7: a status answer given after an accepted configure, with no restart
\* begun since, reports the configure's time plus the new interval as the
\* next restart.
C7_ReportsConfigured ==
    [][\A i \in 1 .. Len(req) :
          (C7_Answered(i) /\ cfg_at # None /\ joining = 0
             /\ signals = <<>> /\ tasks = <<>>) =>
              /\ req'[i].body.next_restart \in {None, C7_Expected}
              /\ req'[i].body.next_restart_in_seconds
                    \in {None, Max(0, C7_Expected - Timestamp(DatetimeNow))}]_vars

\* C8: a step that moves a POST /admin/configure with interval_hours < 1
\* changes no policy, timer, job, thread, timestamp or flag, and the answer
\* it gets is the error (or the gate's 503).
C8_Step(i) ==
    (req[i].path = "/admin/configure" /\ req[i].arg < 1
        /\ req[i].st # "done" /\ req'[i] # req[i]) =>
        /\ UNCHANGED <<restart_interval_hours, jobs, threads, restart_thread,
                       should_restart, last_restart_time, restart_in_progress,
                       tasks, signals, joining, cfg_at>>
        /\ req'[i].st \in {"passed", "done"}
        /\ req'[i].st = "done" => (req'[i].body.error \/ req'[i].status = 503)

C8_InvalidConfigureNoEffect ==
    [][\A i \in 1 .. Len(req) : C8_Step(i)]_vars

\* C8 witness: an invalid configure has been answered with the error after
\* an earlier configure had changed the interval.
C8_Witness ==
    /\ cfg_at # None
    /\ \E i \in 1 .. Len(req) :
          /\ req[i].path = "/admin/configure" /\ req[i].arg < 1
          /\ req[i].st = "done" /\ req[i].body.error

\* C9: POST /admin/configure is answered 400 when interval_hours < 1, and
\* 200 only when interval_hours >= 1.
C9_InvalidIs400 ==
    \A i \in 1 .. Len(req) :
        (req[i].path = "/admin/configure" /\ req[i].st = "done") =>
            /\ req[i].arg < 1 => req[i].status = 400
            /\ req[i].status = 200 => req[i].arg >= 1

\* C11 as claimed: a POST /admin/configure with a valid interval is never
\* rejected, whether or not a restart is in progress when it is issued.
C11_ConfigureNeverRejected ==
    variant = "r1" =>
        \A i \in 1 .. Len(req) :
            (req[i].path = "/admin/configure" /\ req[i].arg >= 1
                /\ req[i].st = "done") => req[i].status = 200

C11_HandlerStep(i) ==
    (req[i].st = "passed" /\ req[i].path = "/admin/configure"
        /\ req[i].arg >= 1 /\ restart_in_progress /\ req'[i].st = "done") =>
        /\ req'[i].status = 200
        /\ req'[i].body.next_restart_in_seconds
              = req[i].arg * SecondsPerHour * Milli
        /\ ~req'[i].body.error
        /\ restart_interval_hours' = req[i].arg
        /\ UNCHANGED <<restart_in_progress, last_restart_time, signals, tasks,
                       alive>>
        /\ Len(jobs') = Len(jobs)
        /\ \A k \in 1 .. Len(jobs) :
              /\ jobs'[k].trigger = "interval"
              /\ jobs'[k].hours = req[i].arg
              /\ jobs'[k].next_run_time = AddHours(DatetimeNow, req[i].arg)

\* C11 amended: a valid POST /admin/configure of restart-1 whose handler
\* runs while restart_in_progress is true (it passed the gate before the
\* flag was set) is answered 200, leaves the flag, the signals sent and the
\* running restart bodies as they are, and sets every pending job to fire
\* the new interval from now.
C11_ConfigureDuringRestart ==
    [][variant = "r1" => \A i \in 1 .. Len(req) : C11_HandlerStep(i)]_vars

\* C11 witness: a configure was accepted under a set flag and the pending
\* job now is the interval job it made.
C11_Witness ==
    /\ variant = "r1" /\ restart_in_progress
    /\ \E i \in 1 .. Len(req) :
          /\ req[i].path = "/admin/configure" /\ req[i].status = 200
          /\ req[i].flag
          /\ Len(jobs) = 1 /\ jobs[1].trigger = "interval"
          /\ jobs[1].hours = req[i].arg

\* request i is at its handler: past the gate in restart-1, arrived in
\* restart-2, which has no gate
C12_AtHandler(i) == req[i].st = IF variant = "r1" THEN "passed" ELSE "arrived"

\* the step queues the background task of the manual restart request i
C12_Queued(i) ==
    /\ Len(tasks') = Len(tasks) + 1
    /\ tasks'[Len(tasks')].src = "manual" /\ tasks'[Len(tasks')].n = i

\* the step sends a signal from the background task of request i
C12_Signalled(i) ==
    /\ Len(signals') = Len(signals) + 1
    /\ signals'[Len(signals')].src = "manual" /\ signals'[Len(signals')].n = i

\* C12: in restart-1 and restart-2 the step of the POST /admin/restart
\* handler that queues the background task is the step that answers 200,
\* with no signal sent, no time passed and the task not yet begun; and a
\* signal of that task is only ever sent after the request was answered.
C12_AckBeforeSignal ==
    [][InProcess =>
          \A i \in 1 .. Len(req) :
              /\ (req[i].path = "/admin/restart" /\ C12_AtHandler(i)
                    /\ req'[i] # req[i]) => C12_Queued(i)
              /\ C12_Queued(i) =>
                    /\ C12_AtHandler(i)
                    /\ req'[i].st = "done" /\ req'[i].status = 200
                    /\ tasks'[Len(tasks')].st = "ready"
                    /\ Head(tasks'[Len(tasks')].prog) = Sleep(ManualDelay)
                    /\ UNCHANGED <<signals, now>>
              /\ C12_Signalled(i) =>
                    /\ req[i].st \in {"done", "closed"}
                    /\ req[i].st = "done" => req[i].status = 200]_vars

\* C12 witness: the background task of an answered manual restart has sent
\* SIGTERM, the delay after the answer.
C12_Witness ==
    /\ variant = "r2"
    /\ \E s \in Sent("SIGTERM") :
          /\ signals[s].src = "manual"
          /\ req[signals[s].n].st \in {"done", "closed"}
          /\ \E k \in 1 .. Len(tasks) :
                /\ tasks[k].src = "manual" /\ tasks[k].n = signals[s].n
                /\ tasks[k].st = "done"

\* the step in which the watchdog, having found no target, goes on to its
\* loop: from schedule_restarts at startup or from restart_fastapi's else
C13_NotFoundStep ==
    /\ variant = "r3" /\ wd'.pc = "loop"
    /\ \/ wd.pc = "boot" /\ Matching = {}
       \/ wd.pc = "start" /\ wd.pid = None

\* the process on pid q is as it was (an exited child may have been waited
\* for)
C13_Kept(q) ==
    \/ procs'[q] = procs[q]
    \/ procs[q].kind = "zombie" /\ procs'[q] = NoProc

\* the step adds exactly one uvicorn process, on a pid that was free
C13_OneFresh ==
    \E p \in Pids :
        /\ procs[p].kind \in {"free", "zombie"}
        /\ procs'[p].kind = "uvicorn" /\ procs'[p].inst = NextInst
        /\ \A q \in Pids \ {p} : C13_Kept(q)

\* the watchdog is in its loop with the next cycle an interval away
C13_KeepsRunning ==
    /\ wd'.pc = "loop"
    /\ wd'.next_run = now + WatchdogIntervalHours * SecondsPerHour
    /\ wd'.wake >= wd'.next_run /\ wd'.wake < wd'.next_run + PollSeconds

\* find_fastapi_pid returning None sends nothing and leads to start_fastapi
C13_FindStep ==
    (variant = "r3" /\ wd.pc = "find" /\ wd'.pc # "find" /\ wd'.pid = None) =>
        /\ wd'.pc = "start"
        /\ UNCHANGED <<signals, procs>>

\* C13 as claimed: whenever find_fastapi_pid finds no match, at startup or
\* in a cycle, the watchdog sends no signal, one fresh target process
\* exists afterwards, and the watchdog is back in its loop.
C13_NotFoundSpawnsOne ==
    [][/\ C13_FindStep
       /\ C13_NotFoundStep =>
             (UNCHANGED signals /\ C13_OneFresh /\ C13_KeepsRunning)]_vars

\* C13 amended: whenever find_fastapi_pid finds no match the watchdog sends
\* no signal, calls start_fastapi exactly once, which adds one fresh target
\* or, when Popen raises, none (the error is logged), and is back in its
\* loop either way.
C13_NotFoundStartsOnce ==
    [][/\ C13_FindStep
       /\ C13_NotFoundStep =>
             /\ UNCHANGED signals
             /\ wd'.spawned
             /\ \/ C13_OneFresh /\ wd'.popen = "ok"
                \/ /\ wd'.popen = "raised"
                   /\ \A q \in Pids : C13_Kept(q)
             /\ C13_KeepsRunning]_vars

\* C13 witness: a cycle that found no target has ended with a fresh one
\* started and no signal ever sent.
C13_Witness ==
    /\ variant = "r3" /\ wd.pc = "loop" /\ wd.cycle >= 1
    /\ wd.outcome = "not_found" /\ wd.popen = "ok"
    /\ Matching # {} /\ signals = <<>>

\* the step sends the SIGTERM of a scheduled fire
C14_ScheduledTerm ==
    /\ Len(signals') = Len(signals) + 1
    /\ signals'[Len(signals')].src = "scheduled"
    /\ signals'[Len(signals')].sig = "SIGTERM"

\* the step is the one in which a scheduled fire sets the flag
C14_ScheduledFlag ==
    \E k \in 1 .. Len(tasks) :
        /\ tasks[k].src = "scheduled" /\ tasks[k].st = "ready"
        /\ Head(tasks[k].prog) = Flag
        /\ tasks'[k] # tasks[k]

\* C14: in restart-1 a scheduled fire sends its SIGTERM in a state where
\* restart_in_progress is already true and last_restart_time is already the
\* current time, and it had recorded the time before it set the flag.
C14_FlagBeforeSignal ==
    [][variant = "r1" =>
          /\ C14_ScheduledTerm =>
                /\ restart_in_progress /\ restart_in_progress'
                /\ last_restart_time = DatetimeNow
                /\ UNCHANGED last_restart_time
          /\ C14_ScheduledFlag =>
                /\ last_restart_time = DatetimeNow
                /\ restart_in_progress'
                /\ UNCHANGED signals]_vars

\* C14 witness: a scheduled fire after a reconfigure has sent SIGTERM, with
\* the flag set and the time of the fire recorded.
C14_Witness ==
    /\ variant = "r1" /\ restart_in_progress
    /\ \E s \in Sent("SIGTERM") :
          /\ signals[s].src = "scheduled"
          /\ signals[s].at > boot + 1
          /\ last_restart_time = FromClock(signals[s].at, usec)

\* C15: when a POST /admin/restart has just been answered 200 (no time has
\* passed since its handler ran), the restart state is what a scheduled
\* fire leaves: restart_in_progress is true (restart-1; restart-2 has no
\* such flag) and last_restart_time is the time of the trigger.
C15_ManualAsScheduled ==
    InProcess =>
        \A i \in 1 .. Len(req) :
            (req[i].path = "/admin/restart" /\ req[i].st = "done"
                /\ req[i].status = 200) =>
                /\ variant = "r1" => restart_in_progress
                /\ Seconds(last_restart_time) = now

\* the step sends the SIGTERM of a scheduler thread of restart-2
C16_ScheduledTerm ==
    /\ variant = "r2"
    /\ Len(signals') = Len(signals) + 1
    /\ signals'[Len(signals')].src = "scheduled"

\* the later of the process start and the last accepted reconfigure
C16_Base == IF cfg_at = None THEN boot ELSE Max(boot, cfg_at)

\* C16: restart-2 sends a scheduled SIGTERM only at the instant that is the
\* configured interval after the later of the process start and the last
\* accepted reconfigure (stated for the fires that are not at the very
\* instant of a reconfigure, where the two race).
C16_FiresOnLivePolicy ==
    [][(C16_ScheduledTerm /\ cfg_at # now /\ joining = 0) =>
          now = C16_Base + restart_interval_hours * SecondsPerHour]_vars

\* a restart cycle ends in this step
C17_CycleEnds == wd.pc \in {"term", "kill9", "start"} /\ wd'.pc # wd.pc
                    /\ wd'.pc \notin {"grace", "start"}

\* a restart cycle begins in this step
C17_CycleBegins == wd.pc # "find" /\ wd'.pc = "find"

\* C17: the watchdog's thread only ever moves along its cycle; however a
\* cycle ends (restarted, not found, ProcessLookupError, another error of
\* os.kill, Popen raising) the thread is back in its loop with the job due
\* one interval later; the next cycle begins at the first poll that finds
\* the job due, from the loop and so never inside another cycle; and cycle
\* after cycle does begin.
C17_NeverStopsScheduling ==
    /\ [][/\ wd.pc = "start" /\ wd'.pc # "start" => wd'.pc = "loop"
          /\ C17_CycleEnds =>
                /\ wd'.pc = "loop"
                /\ wd'.cycle = wd.cycle + 1
                /\ wd'.next_run = now + WatchdogIntervalHours * SecondsPerHour
                /\ wd'.wake >= wd'.next_run
                /\ wd'.wake < wd'.next_run + PollSeconds
          /\ C17_CycleBegins =>
                /\ wd.pc = "loop"
                /\ now >= wd.next_run /\ now < wd.next_run + PollSeconds
          /\ wd'.cycle \in {wd.cycle, wd.cycle + 1}]_vars
    /\ \A c \in 0 .. MaxCycles - 1 :
          (wd.pc = "loop" /\ wd.cycle = c) ~> (wd.pc = "find" /\ wd.cycle = c)
    /\ <>(wd.pc = "loop" /\ wd.cycle = MaxCycles)

\* C17 witness: the cycle after one that ended in ProcessLookupError has
\* begun, one interval after it.
C17_Witness ==
    /\ variant = "r3" /\ wd.pc = "find" /\ wd.cycle >= 1
    /\ wd.outcome = "lookup_error"
    /\ now >= 2 * WatchdogIntervalHours * SecondsPerHour

\* the step sends the watchdog's SIGKILL
C18_Kills ==
    /\ variant = "r3"
    /\ Len(signals') = Len(signals) + 1
    /\ signals'[Len(signals')].sig = "SIGKILL"

\* C18: the SIGKILL of a restart cycle goes to the process instance that
\* find_fastapi_pid matched in that cycle, which is the one the cycle's
\* SIGTERM went to.
C18_KillsWhatItLocated ==
    [][C18_Kills =>
          /\ wd.found # 0
          /\ signals'[Len(signals')].to = wd.found
          /\ signals # <<>>
          /\ signals[Len(signals)].sig = "SIGTERM"
          /\ signals[Len(signals)].to = wd.found]_vars

\* ------------------------------------------- schedule_restart on its own
\* startup of restart-1 at the clock readings around the restart time and
\* away from it
ScheduleClocks ==
    {h * SecondsPerHour + m * 60 + sec :
        h \in {0, 12, 23}, m \in {0, 29, 30, 31, 59}, sec \in {0, 1, 59}}
ScheduleUSecs == {0, 1, 500000, 999999}

ScheduleInit == R1InitAt(ScheduleClocks \X ScheduleUSecs)

ScheduleSpec == ScheduleInit /\ [][R1Startup]_vars

====
